---- MODULE Spec2Model ----
(***************************************************************************)
(* A model of blazeutils: from decorators.py the Retry combinator, the     *)
(* exception notifier exc_emailer, the curry combinator, unique_symbols,   *)
(* the signature matching decorator factory and deprecate; from            *)
(* containers.py the HTMLAttributes container.                             *)
(*                                                                         *)
(* Each component has its own specification (SpecRetry, SpecNotifier,      *)
(* SpecCurry, SpecDecorator, SpecSymbols, SpecAttrs); a component that a   *)
(* specification does not exercise stays at pc "off".                      *)
(***************************************************************************)
EXTENDS Integers, Sequences, FiniteSets, TLC

VARIABLES
    \* ---- Retry (decorators.py 257-294) ----
    tries,        \* self.tries
    exceptions,   \* self.exceptions: the set of classes of the except clause
    msg,          \* self.msg: [isNone, s]
    fnOutcomes,   \* the wrapped fn: the ways one invocation of it can end
    rpc,          \* per thread: position inside wrapfn
    rn,           \* per thread: index of the running iteration of the for loop
    rexc,         \* per thread: sys.exc_info() of the wrapfn frame
    rresult,      \* per thread: how the call of wrapfn ended
    rhist,        \* per thread: outcome of every invocation of fn, in order
    rsleeps,      \* per thread: number of time.sleep calls of this call
    rdebugs,      \* per thread: number of self.log.debug calls of this call
    rcallno,      \* per thread: number of calls of wrapfn started
    \* ---- exc_emailer (decorators.py 215-255) ----
    catch,        \* the classes of "except catch, e"
    print_to_stderr,
    epc,          \* position inside exc_emailer's decorate
    efn,          \* how the wrapped fn ended in this call
    exc_info,     \* the local exc_info
    body,         \* the local body = format_exc()
    esent,        \* the arguments of the calls of send_mail_func, in order
    enotify,      \* how send_mail_func ended in this call
    elogged,      \* number of logger.exception calls of this call
    estderr,      \* number of lines printed to sys.stderr in this call
    eresult,      \* how the call of the decorated function ended
    ecallno,      \* number of calls of the decorated function started
    \* ---- curry (decorators.py 96-201) ----
    cfunc,        \* the callable given to curry: [sig, body, inspectable]
    cur,          \* the callable the caller holds: [kind, args, keywords]
    csupplied,    \* what the calls of the chain up to cur were given, in order
    clast,        \* the last call made on cur: its arguments a and k, the
                  \* args and kwargs it passed to func, and how it ended
    \* ---- decorator, deprecate (decorators.py 12-93, 204-213) ----
    dfn,          \* the decorated function fn: [sig, body, inspectable]
    dtarget,      \* the target given to decorator: "w" or "deprecate"
    dpc,          \* position inside a call of the decorated function
    dcall,        \* the arguments of the call: [pos, kw]
    denv,         \* the parameters of the synthesized lambda, bound
    dgot,         \* what target received after fn: [pos, kw]
    dwarned,      \* number of warnings.warn calls of this call
    dfncalls,     \* the arguments of every call of fn made in this call
    dresult,      \* how the call of the decorated function ended
    dcallno,      \* number of calls of the decorated function started
    dstack,       \* the frames of the call, the innermost last
    dwarnat,      \* the frame the warning of this call is attributed to
    \* ---- unique_symbols (decorators.py 63-75) ----
    unames,       \* the argument `used`: the names in use
    uused,        \* the local set `used`
    ubases,       \* the bases the generator has not handled yet
    uyield,       \* the symbols yielded so far, in order
    upc,          \* position of the generator: "run", "done", "NameError"
    \* ---- HTMLAttributes (containers.py 3-77) ----
    hpc,          \* "ready" once the object is constructed
    hdict,        \* the entries of the dict: key -> text
    hinst,        \* the instance __dict__: name -> text
    hlast         \* the last operation: its kind, key and value, how it
                  \* ended and the keys of the dict it wrote

retryVars == <<tries, exceptions, msg, fnOutcomes, rpc, rn, rexc, rresult, rhist,
               rsleeps, rdebugs, rcallno>>

notifierVars == <<catch, print_to_stderr, epc, efn, exc_info, body, esent,
                  enotify, elogged, estderr, eresult, ecallno>>

curryVars == <<cfunc, cur, csupplied, clast>>

decVars == <<dfn, dtarget, dpc, dcall, denv, dgot, dwarned, dfncalls,
             dresult, dcallno, dstack, dwarnat>>

symVars == <<unames, uused, ubases, uyield, upc>>

attrVars == <<hpc, hdict, hinst, hlast>>

vars == <<retryVars, notifierVars, curryVars, decVars, symVars, attrVars>>

nonRetryVars == <<notifierVars, curryVars, decVars, symVars, attrVars>>
nonNotifierVars == <<retryVars, curryVars, decVars, symVars, attrVars>>
nonCurryVars == <<retryVars, notifierVars, decVars, symVars, attrVars>>
nonDecVars == <<retryVars, notifierVars, curryVars, symVars, attrVars>>
nonSymVars == <<retryVars, notifierVars, curryVars, decVars, attrVars>>
nonAttrVars == <<retryVars, notifierVars, curryVars, decVars, symVars>>

(***************************************************************************)
(* Exceptions: a class hierarchy, and exception values with their text.   *)
(***************************************************************************)
\* the base class of each class of the host language's hierarchy
ExcParent(c) ==
    CASE c = "Exception" -> "BaseException"
      [] c = "KeyboardInterrupt" -> "BaseException"
      [] c = "ValueError" -> "Exception"
      [] c = "UnicodeError" -> "ValueError"
      [] c = "KeyError" -> "Exception"
      [] c = "IOError" -> "Exception"
      [] c = "TypeError" -> "Exception"
      [] c = "RuntimeError" -> "Exception"
      [] OTHER -> "object"

RECURSIVE IsSubclass(_, _)
IsSubclass(c, base) ==
    IF c = base THEN TRUE
    ELSE IF c = "object" THEN FALSE
    ELSE IsSubclass(ExcParent(c), base)

\* "except classes, e": the clause catches an instance of a subclass
ExceptMatches(e, classes) == \E c \in classes : IsSubclass(e.kind, c)

Exc(k, t) == [kind |-> k, text |-> t]
NoExc == [kind |-> "None", text |-> <<>>]

Returned(v) == [tag |-> "return", val |-> v, exc |-> NoExc]
Raised(e) == [tag |-> "raise", val |-> "None", exc |-> e]
NoOutcome == [tag |-> "none", val |-> "None", exc |-> NoExc]

\* "sub in s" on strings (sequences of characters)
IsSubstring(sub, s) ==
    \E i \in 0..Len(s) :
        /\ i + Len(sub) <= Len(s)
        /\ \A j \in 1..Len(sub) : s[i + j] = sub[j]

(***************************************************************************)
(* Retry                                                                   *)
(***************************************************************************)
MaxTries == 3
MaxCalls == 2

Threads == {"t1", "t2"}

RetryTexts == {<<"a", "b">>, <<"b">>}
RetryMsgs == {[isNone |-> TRUE, s |-> <<>>], [isNone |-> FALSE, s |-> <<>>],
              [isNone |-> FALSE, s |-> <<"a">>],
              [isNone |-> FALSE, s |-> <<"a", "b">>]}
RetryExceptionSets == {{"ValueError"}, {"ValueError", "KeyError"}, {"Exception"}}

\* what one invocation of the wrapped fn can do
RetryFnOutcomes ==
    {Returned("v1")}
    \cup {Raised(Exc(k, t)) : k \in {"ValueError", "UnicodeError", "IOError"},
                              t \in RetryTexts}
    \cup {Raised(Exc("KeyboardInterrupt", <<>>))}

\* a wrapped fn with fewer ways to end, for two callers at once
ConcFnOutcomes ==
    {Returned("v1"), Raised(Exc("ValueError", <<"a", "b">>)),
     Raised(Exc("IOError", <<"b">>))}

\* line 287: self.msg is not None and self.msg not in str(e)
\* (variant: the test left out)
MsgGateFails_NoGate(e) == FALSE
MsgGateFails(e) == ~msg.isNone /\ ~IsSubstring(msg.s, e.text)

\* line 286: except self.exceptions, e
RetryCatches(e) == ExceptMatches(e, exceptions)

\* line 283: for _ in xrange(self.tries) -- is there an iteration with index i
\* (variant: one iteration too many)
LoopHas_OneMore(i) == i <= tries
LoopHas(i) == i < tries

\* line 283: xrange starts every call of wrapfn at 0
\* (variant: a counter kept on the Retry object, shared by all calls)
LoopStart_Shared(t) == rn["t1"] + rn["t2"]
LoopStart(t) == 0

\* line 293: a bare raise re-raises sys.exc_info(); with none active it is a
\* TypeError
\* (variant: the first exception of the call kept and raised)
BareRaise_First(t) ==
    IF rhist[t] = <<>> THEN Raised(Exc("TypeError", <<>>)) ELSE rhist[t][1]
BareRaise(t) ==
    IF rexc[t] = NoExc THEN Raised(Exc("TypeError", <<>>)) ELSE Raised(rexc[t])

InitRetryWith(active) ==
    /\ tries \in 0..MaxTries
    /\ exceptions \in RetryExceptionSets
    /\ msg \in RetryMsgs
    /\ rpc = [t \in Threads |-> IF t \in active THEN "idle" ELSE "off"]
    /\ rn = [t \in Threads |-> 0]
    /\ rexc = [t \in Threads |-> NoExc]
    /\ rresult = [t \in Threads |-> NoOutcome]
    /\ rhist = [t \in Threads |-> <<>>]
    /\ rsleeps = [t \in Threads |-> 0]
    /\ rdebugs = [t \in Threads |-> 0]
    /\ rcallno = [t \in Threads |-> 0]

RetryOff ==
    /\ InitRetryWith({})
    /\ fnOutcomes = RetryFnOutcomes
    /\ tries = 0
    /\ exceptions = {"Exception"}
    /\ msg = [isNone |-> TRUE, s |-> <<>>]

\* line 282: a call of wrapfn enters the for loop with fresh locals
RetryCall(t) ==
    /\ rpc[t] \in {"idle", "done"}
    /\ rcallno[t] < MaxCalls
    /\ rcallno' = [rcallno EXCEPT ![t] = @ + 1]
    /\ rn' = [rn EXCEPT ![t] = LoopStart(t)]
    /\ rexc' = [rexc EXCEPT ![t] = NoExc]
    /\ rresult' = [rresult EXCEPT ![t] = NoOutcome]
    /\ rhist' = [rhist EXCEPT ![t] = <<>>]
    /\ rsleeps' = [rsleeps EXCEPT ![t] = 0]
    /\ rdebugs' = [rdebugs EXCEPT ![t] = 0]
    /\ rpc' = [rpc EXCEPT ![t] = IF LoopHas(LoopStart(t)) THEN "attempt"
                                  ELSE "raise"]
    /\ UNCHANGED <<tries, exceptions, msg, fnOutcomes>>
    /\ UNCHANGED nonRetryVars

\* lines 284-289: one iteration up to the debug log
RetryAttempt(t) ==
    /\ rpc[t] = "attempt"
    /\ \E o \in fnOutcomes :
        /\ rhist' = [rhist EXCEPT ![t] = Append(@, o)]
        /\ IF o.tag = "return"
           THEN /\ rresult' = [rresult EXCEPT ![t] = o]
                /\ rpc' = [rpc EXCEPT ![t] = "done"]
                /\ UNCHANGED <<rexc, rdebugs>>
           ELSE IF ~RetryCatches(o.exc)
           THEN /\ rresult' = [rresult EXCEPT ![t] = o]
                /\ rpc' = [rpc EXCEPT ![t] = "done"]
                /\ UNCHANGED <<rexc, rdebugs>>
           ELSE IF MsgGateFails(o.exc)
           THEN /\ rresult' = [rresult EXCEPT ![t] = o]
                /\ rexc' = [rexc EXCEPT ![t] = o.exc]
                /\ rpc' = [rpc EXCEPT ![t] = "done"]
                /\ UNCHANGED rdebugs
           ELSE /\ rexc' = [rexc EXCEPT ![t] = o.exc]
                /\ rdebugs' = [rdebugs EXCEPT ![t] = @ + 1]
                /\ rpc' = [rpc EXCEPT ![t] = "sleep"]
                /\ UNCHANGED rresult
    /\ UNCHANGED <<tries, exceptions, msg, fnOutcomes, rn, rsleeps, rcallno>>
    /\ UNCHANGED nonRetryVars

\* line 290, then the loop header again
RetrySleep(t) ==
    /\ rpc[t] = "sleep"
    /\ rsleeps' = [rsleeps EXCEPT ![t] = @ + 1]
    /\ rn' = [rn EXCEPT ![t] = @ + 1]
    /\ rpc' = [rpc EXCEPT ![t] = IF LoopHas(rn[t] + 1) THEN "attempt" ELSE "raise"]
    /\ UNCHANGED <<tries, exceptions, msg, fnOutcomes, rexc, rresult, rhist, rdebugs, rcallno>>
    /\ UNCHANGED nonRetryVars

\* line 293: the raise after the loop
RetryExhausted(t) ==
    /\ rpc[t] = "raise"
    /\ rresult' = [rresult EXCEPT ![t] = BareRaise(t)]
    /\ rpc' = [rpc EXCEPT ![t] = "done"]
    /\ UNCHANGED <<tries, exceptions, msg, fnOutcomes, rn, rexc, rhist, rsleeps, rdebugs, rcallno>>
    /\ UNCHANGED nonRetryVars

(***************************************************************************)
(* exc_emailer                                                             *)
(***************************************************************************)
CatchSets == {{"Exception"}, {"ValueError"}, {"ValueError", "IOError"},
              {"BaseException"}}

\* what the wrapped fn can do in one call
NotifierFnOutcomes ==
    {Returned("v1"), Returned("None")}
    \cup {Raised(Exc(k, <<"a">>)) :
            k \in {"ValueError", "UnicodeError", "RuntimeError", "IOError",
                   "KeyboardInterrupt"}}

\* what send_mail_func can do
SendMailOutcomes ==
    {Returned("None"), Returned("v1")}
    \cup {Raised(Exc(k, <<"m">>)) : k \in {"IOError", "RuntimeError",
                                           "KeyboardInterrupt"}}

\* line 239: format_exc(), the traceback text of the exception being handled
format_exc(e) == <<"Traceback">> \o <<e.kind>> \o e.text

\* line 238: except catch, e
\* (variant: every exception caught)
NotifierCatches_All(e) == TRUE
NotifierCatches(e) == ExceptMatches(e, catch)

\* lines 245-249 and the end of the function: what the call ends with once
\* send_mail_func has ended with n, the captured exception being info
\* (variants: a bare raise at line 249, which raises the notifier's
\* exception; a raise of the captured exception after a successful send too)
NotifierEnd_RaiseNotifier(info, n) ==
    IF n.tag = "return" THEN Returned("None") ELSE n
NotifierEnd_AlwaysRaise(info, n) ==
    IF n.tag = "return" THEN Raised(info)
    ELSE IF ExceptMatches(n.exc, {"Exception"}) THEN Raised(info)
    ELSE n
NotifierEnd(info, n) ==
    IF n.tag = "return" THEN Returned("None")
    ELSE IF ExceptMatches(n.exc, {"Exception"}) THEN Raised(info)
    ELSE n

NotifierLocalsInit(pc0) ==
    /\ epc = pc0
    /\ efn = NoOutcome
    /\ exc_info = NoExc
    /\ body = <<>>
    /\ esent = <<>>
    /\ enotify = NoOutcome
    /\ elogged = 0
    /\ estderr = 0
    /\ eresult = NoOutcome
    /\ ecallno = 0

NotifierInit ==
    /\ catch \in CatchSets
    /\ print_to_stderr \in BOOLEAN
    /\ NotifierLocalsInit("idle")

NotifierOff ==
    /\ catch = {"Exception"}
    /\ print_to_stderr = TRUE
    /\ NotifierLocalsInit("off")

\* line 234-235: a call of the decorated function
NotifierCall ==
    /\ epc \in {"idle", "done"}
    /\ ecallno < MaxCalls
    /\ ecallno' = ecallno + 1
    /\ epc' = "try"
    /\ efn' = NoOutcome
    /\ exc_info' = NoExc
    /\ body' = <<>>
    /\ esent' = <<>>
    /\ enotify' = NoOutcome
    /\ elogged' = 0
    /\ estderr' = 0
    /\ eresult' = NoOutcome
    /\ UNCHANGED <<catch, print_to_stderr>>
    /\ UNCHANGED nonNotifierVars

\* lines 236-244: fn runs; a caught exception is captured, logged and printed
NotifierTry ==
    /\ epc = "try"
    /\ \E o \in NotifierFnOutcomes :
        /\ efn' = o
        /\ IF o.tag = "raise" /\ NotifierCatches(o.exc)
           THEN /\ body' = format_exc(o.exc)
                /\ exc_info' = o.exc
                /\ elogged' = elogged + 1
                /\ estderr' = IF print_to_stderr THEN estderr + 1 ELSE estderr
                /\ epc' = "send"
                /\ UNCHANGED eresult
           ELSE /\ eresult' = o
                /\ epc' = "done"
                /\ UNCHANGED <<body, exc_info, elogged, estderr>>
    /\ UNCHANGED <<catch, print_to_stderr, esent, enotify, ecallno>>
    /\ UNCHANGED nonNotifierVars

\* lines 245-254: send_mail_func(body), its failure, and the finally clause
NotifierSend ==
    /\ epc = "send"
    /\ \E n \in SendMailOutcomes :
        /\ enotify' = n
        /\ esent' = Append(esent, body)
        /\ elogged' = IF n.tag = "raise" /\ ExceptMatches(n.exc, {"Exception"})
                      THEN elogged + 1 ELSE elogged
        /\ eresult' = NotifierEnd(exc_info, n)
    /\ exc_info' = NoExc
    /\ epc' = "done"
    /\ UNCHANGED <<catch, print_to_stderr, efn, body, estderr, ecallno>>
    /\ UNCHANGED nonNotifierVars

(***************************************************************************)
(* The host language's call: binding positional and keyword arguments to  *)
(* the parameters (args, defaults, *varargs, **varkw) of a function.      *)
(* A signature is what inspect.getargspec returns; a missing varargs or   *)
(* varkw name is "".                                                       *)
(***************************************************************************)
Sig(a, d, va, vk) == [args |-> a, defaults |-> d, varargs |-> va, varkw |-> vk]

EmptyKw == [k \in {} |-> 0]
Kw1(k, v) == [x \in {k} |-> v]

ArgNames(sig) == {sig.args[i] : i \in 1..Len(sig.args)}
ArgIndex(sig, name) == CHOOSE i \in 1..Len(sig.args) : sig.args[i] = name
NumRequired(sig) == Len(sig.args) - Len(sig.defaults)

\* dict.update: the keys of new replace those of held
MergeKw(held, new) ==
    [k \in (DOMAIN held) \cup (DOMAIN new) |->
        IF k \in DOMAIN new THEN new[k] ELSE held[k]]

\* the call f(*pos, **kw) raises TypeError before the body runs
BindError(sig, pos, kw) ==
    \/ Len(pos) > Len(sig.args) /\ sig.varargs = ""
    \/ \E k \in DOMAIN kw :
          k \in ArgNames(sig) /\ ArgIndex(sig, k) <= Len(pos)
    \/ \E k \in DOMAIN kw : k \notin ArgNames(sig) /\ sig.varkw = ""
    \/ \E i \in 1..Len(sig.args) :
          /\ i > Len(pos)
          /\ sig.args[i] \notin DOMAIN kw
          /\ i <= NumRequired(sig)

\* the values the parameters of f get in the call f(*pos, **kw)
Bind(sig, pos, kw) ==
    [named |-> [nm \in ArgNames(sig) |->
                  LET i == ArgIndex(sig, nm) IN
                  IF i <= Len(pos) THEN pos[i]
                  ELSE IF nm \in DOMAIN kw THEN kw[nm]
                  ELSE sig.defaults[i - NumRequired(sig)]],
     star |-> IF Len(pos) > Len(sig.args)
              THEN SubSeq(pos, Len(sig.args) + 1, Len(pos)) ELSE <<>>,
     dstar |-> [k \in (DOMAIN kw) \ ArgNames(sig) |-> kw[k]]]

NoBinding == [named |-> EmptyKw, star |-> <<>>, dstar |-> EmptyKw]
NoObj == [kind |-> "none", args |-> <<>>, keywords |-> EmptyKw]

\* how a call ends: a returned value (the function's view of its arguments),
\* a raised exception, or a returned callable; ran counts the executions of
\* the function body
OutReturn(b) == [tag |-> "return", val |-> b, obj |-> NoObj, exc |-> "", ran |-> 1]
OutRaise(e, n) == [tag |-> "raise", val |-> NoBinding, obj |-> NoObj, exc |-> e, ran |-> n]
OutCallable(o, n) == [tag |-> "callable", val |-> NoBinding, obj |-> o, exc |-> "", ran |-> n]
OutNone == [tag |-> "none", val |-> NoBinding, obj |-> NoObj, exc |-> "", ran |-> 0]

\* func(*pos, **kw): the body of func returns its bound arguments, or raises
Invoke(func, pos, kw) ==
    IF BindError(func.sig, pos, kw) THEN OutRaise("TypeError", 0)
    ELSE IF func.body = "ok" THEN OutReturn(Bind(func.sig, pos, kw))
    ELSE OutRaise(func.body, 1)

(***************************************************************************)
(* curry                                                                   *)
(***************************************************************************)
MaxNewArgs == 2
MaxHeld == 3
NoneCount == -1

Values == {1, 2}
KwKeys == {"a", "y"}

SigMul == Sig(<<"x", "y">>, <<>>, "", "")
SigAdd3 == Sig(<<"x", "y", "z">>, <<>>, "", "")
SigF == Sig(<<"x", "y", "a">>, <<10>>, "", "")
SigBar == Sig(<<>>, <<>>, "args", "")
SigG == Sig(<<"x">>, <<>>, "", "kw")

Func(s, b, i) == [sig |-> s, body |-> b, inspectable |-> i]

CurryFuncs ==
    {Func(s, "ok", TRUE) : s \in {SigMul, SigAdd3, SigF, SigBar, SigG}}
    \cup {Func(s, "TypeError", TRUE) : s \in {SigMul, SigF, SigBar}}
    \cup {Func(SigMul, "ValueError", TRUE), Func(SigBar, "ValueError", TRUE),
          Func(SigMul, "ok", FALSE)}

\* the positional and keyword arguments of one call
ArgSeqs(n) == UNION {[1..m -> Values] : m \in 0..n}
NewKws == {EmptyKw} \cup {Kw1(k, v) : k \in KwKeys, v \in Values}

\* lines 113-120
\* (variant: the variadic parameter not looked at, lines 115-116 left out)
_num_required_args_NoVarargs(func) ==
    IF ~func.inspectable THEN NoneCount
    ELSE Len(func.sig.args) - Len(func.sig.defaults)
_num_required_args(func) ==
    IF ~func.inspectable THEN NoneCount
    ELSE IF func.sig.varargs # "" THEN NoneCount
    ELSE Len(func.sig.args) - Len(func.sig.defaults)

\* lines 154-160: curry(func, *args, **kwargs); None keywords are the empty
\* mapping, which line 177 treats alike
CurryObj(args, kwargs) == [kind |-> "curry", args |-> args, keywords |-> kwargs]
\* functools.partial(func, *args, **kwargs)
PartialObj(args, kwargs) == [kind |-> "partial", args |-> args, keywords |-> kwargs]

\* line 174: args = self.args + args
\* (variant: args + self.args)
CurryArgs_NewFirst(self, a) == a \o self.args
CurryArgs(self, a) == self.args \o a

\* lines 175-183
\* (variant: the held keywords forgotten when new ones are given)
CurryKwargs_DropHeld(self, k) ==
    IF k # EmptyKw THEN k ELSE self.keywords
CurryKwargs(self, k) ==
    IF k # EmptyKw
    THEN MergeKw(IF self.keywords # EmptyKw THEN self.keywords ELSE EmptyKw, k)
    ELSE IF self.keywords # EmptyKw THEN self.keywords
    ELSE EmptyKw

\* what the call leaves in self: lines 173-201 assign no attribute of self
\* (variant: self.keywords updated in place)
CurrySelfAfter_Accumulate(self, a, k) ==
    [self EXCEPT !.keywords = MergeKw(self.keywords, k)]
CurrySelfAfter(self, a, k) == self

\* (variant: every TypeError turned into a new curry)
CurryOnTypeError_NeverRaise(func, args, kwargs, ran) ==
    OutCallable(CurryObj(args, kwargs), ran)
\* (variant: required parameters given by keyword counted as supplied)
CurryOnTypeError_CountKw(func, args, kwargs, ran) ==
    LET required_args == _num_required_args(func)
        n == Len(args) + Cardinality({i \in 1..Len(func.sig.args) :
                 i > Len(args) /\ func.sig.args[i] \in DOMAIN kwargs})
    IN
    IF required_args # NoneCount /\ n >= required_args
    THEN OutRaise("TypeError", ran)
    ELSE IF required_args # NoneCount /\ required_args - n = 1
    THEN OutCallable(PartialObj(args, kwargs), ran)
    ELSE OutCallable(CurryObj(args, kwargs), ran)
\* lines 187-201: the except TypeError clause
CurryOnTypeError(func, args, kwargs, ran) ==
    LET required_args == _num_required_args(func) IN
    IF required_args # NoneCount /\ Len(args) >= required_args
    THEN OutRaise("TypeError", ran)
    ELSE IF required_args # NoneCount /\ required_args - Len(args) = 1
    THEN OutCallable(PartialObj(args, kwargs), ran)
    ELSE OutCallable(CurryObj(args, kwargs), ran)

\* lines 173-201: curry.__call__(self, *a, **k)
CurryCallOut(func, self, a, k) ==
    LET args == CurryArgs(self, a)
        kwargs == CurryKwargs(self, k)
        r == Invoke(func, args, kwargs)
    IN  IF r.tag = "raise" /\ r.exc = "TypeError"
        THEN CurryOnTypeError(func, args, kwargs, r.ran)
        ELSE r

\* (variant: the partial going through the except TypeError clause too)
PartialCallOut_AsCurry(func, self, a, k) == CurryCallOut(func, self, a, k)
\* functools.partial.__call__: func(*(self.args + a), **dict(self.keywords, **k))
PartialCallOut(func, self, a, k) ==
    Invoke(func, self.args \o a, MergeKw(self.keywords, k))

NoCall == [called |-> FALSE, a |-> <<>>, k |-> EmptyKw,
           args |-> <<>>, kwargs |-> EmptyKw, out |-> OutNone]

CurryInit ==
    /\ cfunc \in CurryFuncs
    /\ cur = CurryObj(<<>>, EmptyKw)
    /\ csupplied = [args |-> <<>>, keywords |-> EmptyKw]
    /\ clast = NoCall

CurryOff ==
    /\ cfunc = Func(SigMul, "ok", TRUE)
    /\ cur = NoObj
    /\ csupplied = [args |-> <<>>, keywords |-> EmptyKw]
    /\ clast = NoCall

\* a call of the curried callable the caller holds
CurryCall ==
    /\ cur.kind = "curry"
    /\ \E a \in ArgSeqs(MaxNewArgs), k \in NewKws :
        /\ Len(cur.args) + Len(a) <= MaxHeld
        /\ clast' = [called |-> TRUE, a |-> a, k |-> k,
                     args |-> CurryArgs(cur, a),
                     kwargs |-> CurryKwargs(cur, k),
                     out |-> CurryCallOut(cfunc, cur, a, k)]
        /\ cur' = CurrySelfAfter(cur, a, k)
    /\ UNCHANGED <<cfunc, csupplied>>
    /\ UNCHANGED nonCurryVars

\* a call of the partial the caller holds
PartialCall ==
    /\ cur.kind = "partial"
    /\ \E a \in ArgSeqs(MaxNewArgs), k \in NewKws :
        /\ Len(cur.args) + Len(a) <= MaxHeld
        /\ clast' = [called |-> TRUE, a |-> a, k |-> k,
                     args |-> cur.args \o a,
                     kwargs |-> MergeKw(cur.keywords, k),
                     out |-> PartialCallOut(cfunc, cur, a, k)]
    /\ UNCHANGED <<cfunc, cur, csupplied>>
    /\ UNCHANGED nonCurryVars

\* the caller goes on with the callable the last call returned
CurryContinue ==
    /\ clast.called
    /\ clast.out.tag = "callable"
    /\ cur' = clast.out.obj
    /\ csupplied' = [args |-> csupplied.args \o clast.a,
                     keywords |->
                        [x \in (DOMAIN csupplied.keywords) \cup (DOMAIN clast.k) |->
                            IF x \in DOMAIN clast.k THEN clast.k[x]
                            ELSE csupplied.keywords[x]]]
    /\ clast' = NoCall
    /\ UNCHANGED cfunc
    /\ UNCHANGED nonCurryVars

(***************************************************************************)
(* format_argspec_plus, decorator, deprecate                               *)
(*                                                                         *)
(* A formatted argument list is a sequence of tokens [t, n, v]:           *)
(*   "name"  n        a bare name                                         *)
(*   "eq"    n=v      a name with a value (a default, or a keyword)       *)
(*   "star"  *n       "dstar"  **n                                        *)
(***************************************************************************)
MaxPos == 4
FnObj == 0

Tok(t, n, v) == [t |-> t, n |-> n, v |-> v]

\* inspect.formatargspec(args, varargs, varkw, defaults): the last
\* Len(defaults) names are written name=value
formatargspec(args, varargs, varkw, defaults) ==
    LET first == Len(args) - Len(defaults)
        named == [i \in 1..Len(args) |->
                    IF i > first THEN Tok("eq", args[i], defaults[i - first])
                    ELSE Tok("name", args[i], args[i])]
    IN  named
        \o (IF varargs # "" THEN <<Tok("star", varargs, varargs)>> ELSE <<>>)
        \o (IF varkw # "" THEN <<Tok("dstar", varkw, varkw)>> ELSE <<>>)

\* line 53: the names that have a default
defaulted_vals(spec) ==
    IF spec.defaults # <<>>
    THEN SubSeq(spec.args, Len(spec.args) - Len(spec.defaults) + 1, Len(spec.args))
    ELSE <<>>

\* lines 44-61: format_argspec_plus(spec, grouped=False)
format_argspec_plus(spec) ==
    [args |-> formatargspec(spec.args, spec.varargs, spec.varkw, spec.defaults),
     self_arg |-> IF spec.args # <<>> THEN spec.args[1]
                  ELSE IF spec.varargs # "" THEN spec.varargs ELSE "",
     apply_pos |-> formatargspec(spec.args, spec.varargs, spec.varkw, <<>>),
     apply_kw |-> formatargspec(spec.args, spec.varargs, spec.varkw,
                                defaulted_vals(spec))]

TokensOf(form, t) == SelectSeq(form, LAMBDA x : x.t = t)
TokenName(form, t) ==
    IF TokensOf(form, t) = <<>> THEN "" ELSE TokensOf(form, t)[1].n

\* lines 88-91: the parameters of "lambda %(args)s: ...", its defaults then
\* replaced by those of fn
LambdaSig(fn) ==
    LET form == format_argspec_plus(fn.sig).args
        names == SelectSeq(form, LAMBDA x : x.t \in {"name", "eq"})
    IN  [args |-> [i \in 1..Len(names) |-> names[i].n],
         defaults |-> fn.sig.defaults,
         varargs |-> TokenName(form, "star"),
         varkw |-> TokenName(form, "dstar")]

\* line 88: the arguments of the call "target(fn, %(apply_kw)s)" where the
\* lambda's parameters have the values env: bare names, then the items of
\* *n, are passed positionally; n=v and the items of **n by keyword
EvalApply(form, env) ==
    LET names == TokensOf(form, "name")
        eqs == TokensOf(form, "eq")
        eqkw == [k \in {eqs[i].n : i \in 1..Len(eqs)} |->
                    env.named[eqs[CHOOSE i \in 1..Len(eqs) : eqs[i].n = k].v]]
        star == IF TokensOf(form, "star") = <<>> THEN <<>> ELSE env.star
        dstar == IF TokensOf(form, "dstar") = <<>> THEN EmptyKw ELSE env.dstar
    IN  [err |-> (DOMAIN eqkw) \cap (DOMAIN dstar) # {},
         pos |-> [i \in 1..Len(names) |-> env.named[names[i].n]] \o star,
         kw |-> MergeKw(eqkw, dstar)]

\* the parameters of target: deprecate's decorate(fn, *args, **kw) (line
\* 210), or a forwarding wrapper w(*args, **kw) whose args[0] is fn
TargetSig(target) ==
    IF target = "deprecate" THEN Sig(<<"fn">>, <<>>, "args", "kw")
    ELSE Sig(<<>>, <<>>, "args", "kw")

\* what target has after fn, once its parameters are bound
TargetRest(target, b) ==
    [pos |-> IF target = "deprecate" THEN b.star ELSE Tail(b.star),
     kw |-> b.dstar]

SigABCDE == Sig(<<"a", "b", "c">>, <<3>>, "d", "e")
SigAB == Sig(<<"a", "b">>, <<>>, "", "")
SigAC == Sig(<<"a", "c">>, <<3>>, "", "")
SigAD == Sig(<<"a">>, <<>>, "d", "")
SigACE == Sig(<<"a", "c">>, <<3>>, "", "e")
SigACD == Sig(<<"a", "c">>, <<3>>, "d", "")

DecFuncs ==
    {Func(sg, "ok", TRUE) : sg \in {SigABCDE, SigAB, SigAC, SigAD, SigACE, SigACD}}
    \cup {Func(SigABCDE, "ValueError", TRUE)}

DecKws ==
    {EmptyKw, Kw1("c", 1), Kw1("z", 1), Kw1("fn", 1),
     [x \in {"a", "b"} |-> IF x = "a" THEN 1 ELSE 2],
     [x \in {"c", "z"} |-> IF x = "c" THEN 2 ELSE 1]}

NoArgs == [pos |-> <<>>, kw |-> EmptyKw]

\* the frames of a call of the decorated function: the code calling it, the
\* synthesized lambda (line 88, compiled from the string "<string>"), the
\* target (deprecate's decorate, line 210)
CallerFrame == "caller"
LambdaFrame == "<lambda>"
TargetFrame == "decorate"
NoFrame == ""

\* line 211: the third argument of warnings.warn
StackLevel == 2

\* warnings.warn(message, category, stacklevel), called with the frames
\* `stack` live: level 1 is the function calling warn, level 2 its caller,
\* and so on; past the outermost frame the warning goes to the sys module
WarnFrame(stack, stacklevel) ==
    IF stacklevel <= Len(stack) THEN stack[Len(stack) - stacklevel + 1]
    ELSE "sys"

DecLocalsInit(pc0) ==
    /\ dpc = pc0
    /\ dcall = NoArgs
    /\ denv = NoBinding
    /\ dgot = NoArgs
    /\ dwarned = 0
    /\ dfncalls = <<>>
    /\ dresult = OutNone
    /\ dcallno = 0
    /\ dstack = IF pc0 = "off" THEN <<>> ELSE <<CallerFrame>>
    /\ dwarnat = NoFrame

\* decorator(target)(fn), lines 77-93
DecInit ==
    /\ dfn \in DecFuncs
    /\ dtarget \in {"w", "deprecate"}
    /\ DecLocalsInit("idle")

DecOff ==
    /\ dfn = Func(SigAB, "ok", TRUE)
    /\ dtarget = "w"
    /\ DecLocalsInit("off")

\* a call of the decorated function: the synthesized lambda binds its
\* parameters (lines 88-92)
DecoratedCall ==
    /\ dpc = "idle"
    /\ dcallno < MaxCalls
    /\ dcallno' = dcallno + 1
    /\ \E pos \in ArgSeqs(MaxPos), kw \in DecKws :
        /\ dcall' = [pos |-> pos, kw |-> kw]
        /\ IF BindError(LambdaSig(dfn), pos, kw)
           THEN /\ denv' = NoBinding
                /\ dresult' = OutRaise("TypeError", 0)
                /\ dpc' = "done"
                /\ dstack' = <<CallerFrame>>
           ELSE /\ denv' = Bind(LambdaSig(dfn), pos, kw)
                /\ dresult' = OutNone
                /\ dpc' = "target"
                /\ dstack' = <<CallerFrame, LambdaFrame>>
    /\ dgot' = NoArgs
    /\ dwarned' = 0
    /\ dwarnat' = NoFrame
    /\ dfncalls' = <<>>
    /\ UNCHANGED <<dfn, dtarget>>
    /\ UNCHANGED nonDecVars

\* the body of the lambda, line 88: target(fn, apply_kw); target binds its
\* parameters and, in deprecate, warns (line 211)
DecoratedBody ==
    /\ dpc = "target"
    /\ LET ev == EvalApply(format_argspec_plus(dfn.sig).apply_kw, denv)
           tpos == <<FnObj>> \o ev.pos
       IN  IF ev.err \/ BindError(TargetSig(dtarget), tpos, ev.kw)
           THEN /\ dresult' = OutRaise("TypeError", 0)
                /\ dpc' = "done"
                /\ dstack' = <<CallerFrame>>
                /\ UNCHANGED <<dgot, dwarned, dwarnat>>
           ELSE /\ dgot' = TargetRest(dtarget, Bind(TargetSig(dtarget), tpos, ev.kw))
                /\ dwarned' = IF dtarget = "deprecate" THEN dwarned + 1 ELSE dwarned
                /\ dstack' = Append(dstack, TargetFrame)
                /\ dwarnat' = IF dtarget = "deprecate"
                              THEN WarnFrame(Append(dstack, TargetFrame), StackLevel)
                              ELSE dwarnat
                /\ dpc' = "fn"
                /\ UNCHANGED dresult
    /\ UNCHANGED <<dfn, dtarget, dcall, denv, dfncalls, dcallno>>
    /\ UNCHANGED nonDecVars

\* line 212: return fn(*args, **kw)
DecoratedForward ==
    /\ dpc = "fn"
    /\ dfncalls' = Append(dfncalls, dgot)
    /\ dresult' = Invoke(dfn, dgot.pos, dgot.kw)
    /\ dpc' = "done"
    /\ dstack' = <<CallerFrame>>
    /\ UNCHANGED <<dfn, dtarget, dcall, denv, dgot, dwarned, dcallno, dwarnat>>
    /\ UNCHANGED nonDecVars

\* the call has ended and the caller may call again
DecoratedReturn ==
    /\ dpc = "done"
    /\ dpc' = "idle"
    /\ dcall' = NoArgs
    /\ denv' = NoBinding
    /\ dgot' = NoArgs
    /\ dwarned' = 0
    /\ dfncalls' = <<>>
    /\ dresult' = OutNone
    /\ dwarnat' = NoFrame
    /\ UNCHANGED <<dfn, dtarget, dcallno, dstack>>
    /\ UNCHANGED nonDecVars

(***************************************************************************)
(* unique_symbols(used, *bases), lines 63-75                               *)
(***************************************************************************)
\* line 68: xrange(1000)
PoolRange == 1000
\* the numbered variants base0 .. base<MaxVariant-1> may be among the names
\* in use
MaxVariant == 2

\* line 68: the pool of one base: base, base0, base1, ..., base999
Pool(base) ==
    [i \in 1..(PoolRange + 1) |->
        IF i = 1 THEN base ELSE base \o ToString(i - 2)]

NoSymbol == [found |-> FALSE, sym |-> ""]

\* lines 69-75: the first symbol of the pool that is not in `used`, or the
\* for loop's else clause
\* (variant: the test `sym not in used` left out)
FirstFree_NoTest(used, base) == [found |-> TRUE, sym |-> base]
FirstFree(used, base) ==
    LET pool == Pool(base)
        free == {i \in DOMAIN pool : pool[i] \notin used}
    IN  IF free = {} THEN NoSymbol
        ELSE [found |-> TRUE,
              sym |-> pool[CHOOSE i \in free :
                              \A j \in 1..(i - 1) : pool[j] \in used]]

\* line 85: the bases decorate asks for
Bases == <<"target", "fn">>

\* names a decorated function can bring: its parameters and its own name
\* (line 84), the bases and their first numbered variants among them
SomeNames ==
    {"a"} \cup {Bases[b] : b \in 1..Len(Bases)}
          \cup {Bases[b] \o ToString(i) : b \in 1..Len(Bases), i \in 0..(MaxVariant - 1)}

\* every symbol of the pool of one base
WholePool(base) == {Pool(base)[i] : i \in 1..(PoolRange + 1)}

\* line 64 (used = set(used)) and the start of the generator
SymInit ==
    /\ unames \in (SUBSET SomeNames)
                  \cup {WholePool("target"), WholePool("fn") \cup {"target"}}
    /\ uused = unames
    /\ ubases = Bases
    /\ uyield = <<>>
    /\ upc = "run"

SymOff ==
    /\ unames = {}
    /\ uused = {}
    /\ ubases = <<>>
    /\ uyield = <<>>
    /\ upc = "off"

\* lines 65-75: the generator is resumed and handles the next base: it
\* yields the first free symbol of the pool and adds it to `used`, or raises
\* NameError
SymNext ==
    /\ upc = "run"
    /\ ubases # <<>>
    /\ LET r == FirstFree(uused, Head(ubases)) IN
         IF r.found
         THEN /\ uused' = uused \cup {r.sym}
              /\ uyield' = Append(uyield, r.sym)
              /\ ubases' = Tail(ubases)
              /\ upc' = "run"
         ELSE /\ upc' = "NameError"
              /\ UNCHANGED <<uused, uyield, ubases>>
    /\ UNCHANGED unames
    /\ UNCHANGED nonSymVars

\* line 65: no base is left, the generator ends (line 85 has its two names)
SymStop ==
    /\ upc = "run"
    /\ ubases = <<>>
    /\ upc' = "done"
    /\ UNCHANGED <<unames, uused, ubases, uyield>>
    /\ UNCHANGED nonSymVars

(***************************************************************************)
(* containers.py: HTMLAttributes(LazyDict(dict))                           *)
(*                                                                         *)
(* A key is the sequence of its characters, the stem counting as one; a    *)
(* value is [t, s, n]: a text s (t = "str") or an integer n (t = "int").   *)
(***************************************************************************)
\* the most trailing underscores a supplied key has
MaxUnderscores == 2

Key(stem, n) == <<stem>> \o [i \in 1..n |-> "_"]
LdKey == Key("_ld_initialized", 0)

\* the keys the caller supplies
AttrKeys ==
    {Key("k", n) : n \in 0..MaxUnderscores} \cup {LdKey, Key("_ld_initialized", 1)}

StrVal(s) == [t |-> "str", s |-> s, n |-> 0]
IntVal(n) == [t |-> "int", s |-> "", n |-> n]
\* the values the caller supplies
AttrValues == {StrVal("v"), IntVal(1)}

EmptyDict == [x \in {} |-> ""]

\* d[k] = v of a dict
DictSet(d, k, v) == [x \in (DOMAIN d) \cup {k} |-> IF x = k THEN v ELSE d[x]]
\* del d[k]
DictDel(d, k) == [x \in (DOMAIN d) \ {k} |-> d[x]]

\* lines 32-34: _Attribute(value) is six.text_type(value); _Attribute() is u''
_Attribute(value) == IF value.t = "str" THEN value.s ELSE ToString(value.n)
EmptyAttribute == StrVal("")

\* lines 63-66
_clean_key(key) ==
    IF key # <<>> /\ key[Len(key)] = "_" THEN SubSeq(key, 1, Len(key) - 1)
    ELSE key

\* how an operation ends
AttrReturned(v) == [tag |-> "return", val |-> v, key |-> <<>>]
AttrKeyError(k) == [tag |-> "KeyError", val |-> "", key |-> k]
AttrNone == [tag |-> "none", val |-> "", key |-> <<>>]

\* lines 58-61: HTMLAttributes.__setitem__(key, value); LazyDict has no
\* __setitem__, so line 61 is dict.__setitem__
\* (variant: the key stored as given)
HTMLSetItemOut_NoClean(d, key, value) ==
    [d |-> DictSet(d, key, _Attribute(value)), stored |-> {key}]
HTMLSetItemOut(d, key, value) ==
    LET k == _clean_key(key) IN
    [d |-> DictSet(d, k, _Attribute(value)), stored |-> {k}]

\* lines 47-51: HTMLAttributes.__getitem__(key); line 50 goes through
\* __setitem__, line 51 is dict.__getitem__ with the key cleaned once
HTMLGetItemOut(d, key) ==
    LET k == _clean_key(key)
        w == IF k \notin DOMAIN d THEN HTMLSetItemOut(d, k, EmptyAttribute)
             ELSE [d |-> d, stored |-> {}]
    IN  [d |-> w.d, stored |-> w.stored,
         out |-> IF k \in DOMAIN w.d THEN AttrReturned(w.d[k])
                 ELSE AttrKeyError(k)]

\* lines 41-45: HTMLAttributes.__getattr__(attr), reached when the normal
\* lookup finds no attribute; lines 44 and 45 go through __setitem__ and
\* __getitem__
HTMLGetAttrOut(d, attr) ==
    LET a == _clean_key(attr)
        w == IF a \notin DOMAIN d THEN HTMLSetItemOut(d, a, EmptyAttribute)
             ELSE [d |-> d, stored |-> {}]
        r == HTMLGetItemOut(w.d, a)
    IN  [d |-> r.d, stored |-> w.stored \cup r.stored, out |-> r.out]

\* lines 53-56 and LazyDict.__setattr__, lines 14-27. The test of line 16
\* compares a text with False, which is never equal; HTMLAttributes has no
\* property (line 23)
HTMLSetAttrOut(inst, d, item, value) ==
    LET i == _clean_key(item)
        v == StrVal(_Attribute(value))
    IN  IF LdKey \notin DOMAIN inst
        THEN [inst |-> DictSet(inst, i, v.s), d |-> d, stored |-> {}]
        ELSE IF i \in DOMAIN inst
        THEN [inst |-> DictSet(inst, i, v.s), d |-> d, stored |-> {}]
        ELSE LET w == HTMLSetItemOut(d, i, v)
             IN  [inst |-> inst, d |-> w.d, stored |-> w.stored]

\* lines 68-77: _clean_keys, for a dict in which at most one key ends with
\* an underscore (the order of self.keys() is then immaterial)
_clean_keys(d) ==
    LET dirty == {k \in DOMAIN d : _clean_key(k) # k} IN
    IF dirty = {} THEN d
    ELSE LET key == CHOOSE k \in dirty : TRUE
             w == HTMLSetItemOut(d, _clean_key(key), StrVal(d[key]))
         IN  DictDel(w.d, key)

\* the keyword arguments of the constructor
AttrKwargs ==
    {EmptyDict} \cup {DictSet(EmptyDict, Key("k", n), "v") : n \in 0..MaxUnderscores}
                \cup {DictSet(DictSet(EmptyDict, Key("k", 0), "v"), Key("k", 1), "1")}

NoOp == [op |-> "none", key |-> <<>>, value |-> EmptyAttribute,
         absent |-> FALSE, out |-> AttrNone, stored |-> {}]

\* lines 37-39 and 4-6: HTMLAttributes(**kwargs); line 5 sets
\* _ld_initialized through __setattr__ (lines 53-56, then line 17)
AttrInit ==
    /\ hpc = "ready"
    /\ \E kw \in AttrKwargs : hdict = _clean_keys(kw)
    /\ hinst = HTMLSetAttrOut(EmptyDict, EmptyDict, LdKey, StrVal("True")).inst
    /\ hlast = NoOp

AttrOff ==
    /\ hpc = "off"
    /\ hdict = EmptyDict
    /\ hinst = EmptyDict
    /\ hlast = NoOp

\* h[key]
HTMLGetItem ==
    /\ hpc = "ready"
    /\ \E key \in AttrKeys :
        LET r == HTMLGetItemOut(hdict, key) IN
        /\ hdict' = r.d
        /\ hlast' = [op |-> "getitem", key |-> key, value |-> EmptyAttribute,
                     absent |-> _clean_key(key) \notin DOMAIN hdict,
                     out |-> r.out, stored |-> r.stored]
    /\ UNCHANGED <<hpc, hinst>>
    /\ UNCHANGED nonAttrVars

\* h.attr: an instance attribute is found by the normal lookup, any other
\* name reaches __getattr__
HTMLGetAttr ==
    /\ hpc = "ready"
    /\ \E attr \in AttrKeys :
        IF attr \in DOMAIN hinst
        THEN /\ hlast' = [op |-> "getattr", key |-> attr, value |-> EmptyAttribute,
                          absent |-> FALSE,
                          out |-> AttrReturned(hinst[attr]), stored |-> {}]
             /\ UNCHANGED hdict
        ELSE LET r == HTMLGetAttrOut(hdict, attr) IN
             /\ hdict' = r.d
             /\ hlast' = [op |-> "getattr", key |-> attr, value |-> EmptyAttribute,
                          absent |-> _clean_key(attr) \notin DOMAIN hdict,
                          out |-> r.out, stored |-> r.stored]
    /\ UNCHANGED <<hpc, hinst>>
    /\ UNCHANGED nonAttrVars

\* h[key] = value
HTMLSetItem ==
    /\ hpc = "ready"
    /\ \E key \in AttrKeys, value \in AttrValues :
        LET r == HTMLSetItemOut(hdict, key, value) IN
        /\ hdict' = r.d
        /\ hlast' = [op |-> "setitem", key |-> key, value |-> value,
                     absent |-> FALSE, out |-> AttrNone, stored |-> r.stored]
    /\ UNCHANGED <<hpc, hinst>>
    /\ UNCHANGED nonAttrVars

\* h.item = value
HTMLSetAttr ==
    /\ hpc = "ready"
    /\ \E item \in AttrKeys, value \in AttrValues :
        LET r == HTMLSetAttrOut(hinst, hdict, item, value) IN
        /\ hdict' = r.d
        /\ hinst' = r.inst
        /\ hlast' = [op |-> "setattr", key |-> item, value |-> value,
                     absent |-> FALSE, out |-> AttrNone, stored |-> r.stored]
    /\ UNCHANGED hpc
    /\ UNCHANGED nonAttrVars

(***************************************************************************)
(* Specifications: one per combinator                                      *)
(***************************************************************************)
InitRetryConc ==
    /\ InitRetryWith(Threads)
    /\ exceptions = {"ValueError"}
    /\ msg.isNone
    /\ fnOutcomes = ConcFnOutcomes
    /\ NotifierOff /\ CurryOff /\ DecOff /\ SymOff /\ AttrOff
InitRetry == InitRetryWith({"t1"}) /\ fnOutcomes = RetryFnOutcomes /\ SymOff /\ AttrOff /\ NotifierOff /\ CurryOff /\ DecOff
InitNotifier == NotifierInit /\ RetryOff /\ CurryOff /\ DecOff /\ SymOff /\ AttrOff
InitCurry == CurryInit /\ RetryOff /\ NotifierOff /\ DecOff /\ SymOff /\ AttrOff
InitDecorator == DecInit /\ RetryOff /\ NotifierOff /\ CurryOff /\ SymOff /\ AttrOff
InitSymbols == SymInit /\ RetryOff /\ NotifierOff /\ CurryOff /\ DecOff /\ AttrOff
InitAttrs == AttrInit /\ RetryOff /\ NotifierOff /\ CurryOff /\ DecOff /\ SymOff

NextRetry ==
    \E t \in Threads :
        \/ RetryCall(t)
        \/ RetryAttempt(t)
        \/ RetrySleep(t)
        \/ RetryExhausted(t)

NextNotifier ==
    \/ NotifierCall
    \/ NotifierTry
    \/ NotifierSend

NextCurry ==
    \/ CurryCall
    \/ PartialCall
    \/ CurryContinue

NextDecorator ==
    \/ DecoratedCall
    \/ DecoratedBody
    \/ DecoratedForward
    \/ DecoratedReturn

NextSymbols == SymNext \/ SymStop

NextAttrs == HTMLGetItem \/ HTMLGetAttr \/ HTMLSetItem \/ HTMLSetAttr

Init ==
    InitRetry \/ InitNotifier \/ InitCurry \/ InitDecorator \/ InitSymbols
    \/ InitAttrs
Next ==
    NextRetry \/ NextNotifier \/ NextCurry \/ NextDecorator \/ NextSymbols
    \/ NextAttrs
Spec == Init /\ [][Next]_vars

SpecSymbols == InitSymbols /\ [][NextSymbols]_vars
SpecAttrs == InitAttrs /\ [][NextAttrs]_vars
SpecRetry == InitRetry /\ [][NextRetry]_vars
\* wrapfn is synchronous code: a call that has started goes on to its end
FairSpecRetry == SpecRetry /\ WF_vars(NextRetry)
\* two threads calling the same wrapped function
SpecRetryConc == InitRetryConc /\ [][NextRetry]_vars
SpecNotifier == InitNotifier /\ [][NextNotifier]_vars
SpecCurry == InitCurry /\ [][NextCurry]_vars
SpecDecorator == InitDecorator /\ [][NextDecorator]_vars

(***************************************************************************)
(* Claims about Retry                                                      *)
(***************************************************************************)
\* "matching" as the specification words it: the kind is one of the
\* designated kinds and, when a substring is required, the text holds it
IsMatchingAttempt(o) ==
    /\ o.tag = "raise"
    /\ \E c \in exceptions : IsSubclass(o.exc.kind, c)
    /\ (msg.isNone \/ IsSubstring(msg.s, o.exc.text))

IsNonMatchingAttempt(o) == o.tag = "raise" /\ ~IsMatchingAttempt(o)

EveryAttemptMatched(t) ==
    \A i \in 1..Len(rhist[t]) : IsMatchingAttempt(rhist[t][i])

\* C1: with tries = N >= 1, a call of the retry wrapper whose every
\* invocation of fn raised a matching exception has, once it ended, invoked
\* fn exactly N times and ended by raising one of those matching exceptions;
\* while it runs it never invokes fn more than N times.
C1_RetryExhaustion ==
    \A t \in Threads :
        (tries >= 1 /\ rpc[t] \notin {"off", "idle"} /\ EveryAttemptMatched(t)) =>
            /\ Len(rhist[t]) <= tries
            /\ rpc[t] = "done" =>
                /\ Len(rhist[t]) = tries
                /\ rresult[t].tag = "raise"
                /\ \E i \in 1..Len(rhist[t]) : rresult[t] = rhist[t][i]

C1_Witness ==
    /\ tries = MaxTries
    /\ ~msg.isNone
    /\ rpc["t1"] = "done"
    /\ Len(rhist["t1"]) = MaxTries
    /\ EveryAttemptMatched("t1")
    /\ rresult["t1"].tag = "raise"

\* C7: an attempt that raises a non-matching exception (kind outside
\* `exceptions`, or msg set and not a substring of the text) is the last
\* invocation of the call: the call has ended with exactly that exception,
\* and nothing was slept or logged for that attempt (sleeps and debug logs
\* count the earlier attempts only).
C7_NoRetryOnNonMatching ==
    \A t \in Threads :
        \A i \in 1..Len(rhist[t]) :
            IsNonMatchingAttempt(rhist[t][i]) =>
                /\ i = Len(rhist[t])
                /\ rpc[t] = "done"
                /\ rresult[t] = rhist[t][i]
                /\ rsleeps[t] = i - 1
                /\ rdebugs[t] = i - 1

C7_Witness ==
    /\ tries = MaxTries
    /\ rpc["t1"] = "done"
    /\ Len(rhist["t1"]) = 2
    /\ ~msg.isNone
    /\ \E c \in exceptions : IsSubclass(rhist["t1"][2].exc.kind, c)
    /\ IsNonMatchingAttempt(rhist["t1"][2])
    /\ rresult["t1"] = rhist["t1"][2]

(***************************************************************************)
(* Claims about exc_emailer                                                *)
(***************************************************************************)
FnRaisedInCatch ==
    /\ efn.tag = "raise"
    /\ \E c \in catch : IsSubclass(efn.exc.kind, c)

NotifierFailed ==
    /\ enotify.tag = "raise"
    /\ IsSubclass(enotify.exc.kind, "Exception")

\* C2 (as claimed): whenever the wrapped callable raised an exception whose
\* kind is in `catch`, the call of the decorated function ends by raising
\* that exception, whether the notifier succeeded or failed.
C2_NeverSwallows ==
    (epc = "done" /\ FnRaisedInCatch) => eresult = efn

\* C2 (amended): whenever the wrapped callable raised an exception whose
\* kind is in `catch`, the call ends by raising that exception if the
\* notifier failed with an Exception, and ends by returning None, the
\* exception not reaching the caller, if the notifier returned.
C2_RaisesOnlyOnNotifierFailure ==
    (epc = "done" /\ FnRaisedInCatch) =>
        /\ NotifierFailed => eresult = efn
        /\ enotify.tag = "return" =>
              (eresult.tag = "return" /\ eresult.val = "None")

C2_Witness ==
    /\ epc = "done"
    /\ FnRaisedInCatch
    /\ enotify.tag = "return"
    /\ eresult.tag = "return"
    /\ ecallno = 2

\* C3: when the wrapped callable raised an exception in `catch` and the
\* notifier then raised an Exception, the caller gets the captured exception
\* (same kind and value), not the notifier's, and the notifier was invoked
\* exactly once, with the traceback text of the captured exception.
C3_NotifierFailureDoesNotMask ==
    (epc = "done" /\ FnRaisedInCatch /\ NotifierFailed) =>
        /\ eresult.tag = "raise"
        /\ eresult.exc = efn.exc
        /\ eresult.exc # enotify.exc
        /\ Len(esent) = 1
        /\ esent[1] = <<"Traceback", efn.exc.kind>> \o efn.exc.text

C3_Witness ==
    /\ epc = "done"
    /\ efn = Raised(Exc("RuntimeError", <<"a">>))
    /\ enotify = Raised(Exc("IOError", <<"m">>))
    /\ eresult = Raised(Exc("RuntimeError", <<"a">>))
    /\ esent = << <<"Traceback", "RuntimeError", "a">> >>

\* C10: when the wrapped callable raised an exception whose kind is outside
\* `catch`, that exception reaches the caller and neither the logger nor
\* the notifier was invoked; when it returned, its result is returned and
\* the notifier was not invoked.
C10_PassThrough ==
    epc = "done" =>
        /\ (efn.tag = "raise" /\ ~FnRaisedInCatch) =>
              (eresult = efn /\ elogged = 0 /\ esent = <<>> /\ estderr = 0)
        /\ efn.tag = "return" => (eresult = efn /\ esent = <<>>)

C10_Witness ==
    /\ epc = "done"
    /\ catch = {"ValueError", "IOError"}
    /\ efn = Raised(Exc("RuntimeError", <<"a">>))
    /\ eresult = efn
    /\ esent = <<>>

(***************************************************************************)
(* Claims about curry                                                      *)
(***************************************************************************)
\* a function with n required positional parameters and nothing else, whose
\* body raises no TypeError
PlainFunc ==
    /\ cfunc.sig.defaults = <<>>
    /\ cfunc.sig.varargs = ""
    /\ cfunc.sig.varkw = ""
    /\ cfunc.body = "ok"

\* the direct call f(v1, ..., vn): each parameter gets the argument at its
\* position
DirectPositional(sig, vs) ==
    [named |-> [nm \in {sig.args[i] : i \in 1..Len(sig.args)} |->
                  vs[CHOOSE i \in 1..Len(sig.args) : sig.args[i] = nm]],
     star |-> <<>>,
     dstar |-> EmptyKw]

\* C4: for a function with n required positional parameters (no defaults,
\* no variadic parameter, a body raising no TypeError), in a chain of calls
\* that each pass at least one positional argument and no keyword: the call
\* that completes the n arguments returns what the direct call with the n
\* arguments returns and is the one execution of the body; a call that
\* leaves arguments missing returns a callable without executing the body.
C4_CurryThreshold ==
    (/\ PlainFunc
     /\ clast.called
     /\ csupplied.keywords = EmptyKw
     /\ clast.k = EmptyKw
     /\ Len(clast.a) >= 1) =>
        LET n == Len(cfunc.sig.args)
            given == csupplied.args \o clast.a
        IN  /\ Len(given) = n =>
                /\ clast.out.tag = "return"
                /\ clast.out.val = DirectPositional(cfunc.sig, given)
                /\ clast.out.ran = 1
            /\ Len(given) < n =>
                /\ clast.out.tag = "callable"
                /\ clast.out.ran = 0

C4_Witness ==
    /\ cfunc = Func(SigAdd3, "ok", TRUE)
    /\ csupplied.args = <<1, 2>>
    /\ csupplied.keywords = EmptyKw
    /\ cur.kind = "partial"
    /\ clast.called
    /\ clast.a = <<1>>
    /\ clast.k = EmptyKw
    /\ clast.out.tag = "return"
    /\ clast.out.val.named["x"] = 1
    /\ clast.out.val.named["y"] = 2
    /\ clast.out.val.named["z"] = 1

\* the union of two keyword mappings in which the later one wins
LaterWins(earlier, later) ==
    [x \in (DOMAIN earlier) \cup (DOMAIN later) |->
        IF x \in DOMAIN later THEN later[x] ELSE earlier[x]]

\* C5: every call of a curried callable attempts the function with the
\* positional arguments of the earlier calls followed by the new ones, and
\* with the union of the earlier and the new keyword arguments, the new value
\* winning; a value the call returns is the value of the direct call with
\* those arguments.
C5_CurryMerge ==
    (clast.called /\ cur.kind = "curry") =>
        /\ clast.args = csupplied.args \o clast.a
        /\ clast.kwargs = LaterWins(csupplied.keywords, clast.k)
        /\ cur.args = csupplied.args
        /\ cur.keywords = csupplied.keywords
        /\ clast.out.tag = "return" =>
              clast.out = Invoke(cfunc, csupplied.args \o clast.a,
                                 LaterWins(csupplied.keywords, clast.k))

\* curry(f)(a=1)(1, 2) with f(x, y, a=10)
C5_Witness ==
    /\ cfunc = Func(SigF, "ok", TRUE)
    /\ cur = CurryObj(<<>>, Kw1("a", 1))
    /\ clast.called
    /\ clast.a = <<1, 2>>
    /\ clast.k = EmptyKw
    /\ clast.out.tag = "return"
    /\ clast.out.val.named["a"] = 1
    /\ clast.out.val.named["x"] = 1
    /\ clast.out.val.named["y"] = 2

\* C8: a call of a curried callable leaves the callable's held positional
\* and keyword arguments as they were, and a second call on the same
\* callable with the same arguments ends as the first one did.
C8_CurryImmutable ==
    [][clast'.called =>
          /\ cur' = cur
          /\ (clast.called /\ clast'.a = clast.a /\ clast'.k = clast.k) =>
                clast'.out = clast.out]_vars

C8_Witness ==
    /\ cfunc = Func(SigAdd3, "ok", TRUE)
    /\ cur = CurryObj(<<1>>, Kw1("a", 2))
    /\ clast.called
    /\ clast.a = <<2>>
    /\ clast.k = Kw1("a", 1)
    /\ clast.out.tag = "callable"
    /\ clast.out.obj # cur

(***************************************************************************)
(* Claims about decorator and deprecate                                    *)
(***************************************************************************)
\* the direct call fn(*pos, **kw)
DirectCall == Invoke(dfn, dcall.pos, dcall.kw)

\* C6: for f(a, b, c=3, *d, **e) and every call f itself accepts, the
\* function decorator(w)(f), w forwarding what it receives to f, accepts the
\* call, w receives a, b, c, d, e as the direct call binds them, and f is
\* called once and binds a, b, c, d, e as in the direct call.
C6_SignatureFidelity ==
    (/\ dpc = "done"
     /\ dtarget = "w"
     /\ dfn = Func(SigABCDE, "ok", TRUE)
     /\ DirectCall.tag = "return") =>
        /\ dresult = DirectCall
        /\ Len(dfncalls) = 1
        /\ Invoke(dfn, dgot.pos, dgot.kw) = DirectCall

\* the cases in which decorator keeps the signature: no parameter with a
\* default, or no argument beyond the named parameters
KeepsSignature ==
    \/ dfn.sig.defaults = <<>>
    \/ Len(dcall.pos) <= Len(dfn.sig.args)

FidelityWhereKept ==
    (dpc = "done" /\ dtarget = "w" /\ KeepsSignature) =>
        dresult = DirectCall

\* C9: every call of a function decorated with deprecate(message) that the
\* function's signature accepts warns exactly once, then calls the original
\* function exactly once, and ends as the direct call with the same
\* arguments ends (same value, or same exception).
C9_DeprecationTransparency ==
    (/\ dpc = "done"
     /\ dtarget = "deprecate"
     /\ ~BindError(dfn.sig, dcall.pos, dcall.kw)) =>
        /\ dwarned = 1
        /\ Len(dfncalls) = 1
        /\ dresult = DirectCall

----------------------------------------------------------------------------
(* Claims about Retry, continued *)

\* a call that ended after `tries` attempts, each with a matching exception
Exhausted(t) ==
    /\ tries >= 1
    /\ rpc[t] = "done"
    /\ Len(rhist[t]) = tries
    /\ EveryAttemptMatched(t)

\* C11: a matching exception on the last attempt is re-raised without a
\* debug log entry and without sleeping: a call that exhausted its `tries`
\* attempts has slept and logged exactly tries - 1 times (tries = 1: never).
C11_DelayOnlyBetweenAttempts ==
    \A t \in Threads :
        Exhausted(t) =>
            /\ rsleeps[t] = tries - 1
            /\ rdebugs[t] = tries - 1

\* C12: the attempt counter of a call counts the attempts of that call only,
\* whatever the caller's earlier calls and the other thread's calls did: it
\* is 0 at the first attempt, equals the number of invocations this call
\* made before the current one, and a call whose attempts all match ends
\* only after its own `tries` invocations.
C12_NoStateAcrossCalls ==
    \A t \in Threads :
        /\ rpc[t] = "attempt" => (rn[t] = Len(rhist[t]) /\ rn[t] < tries)
        /\ rpc[t] = "sleep" => (rn[t] + 1 = Len(rhist[t]) /\ rn[t] < tries)
        /\ (tries >= 1 /\ rpc[t] = "done" /\ EveryAttemptMatched(t)) =>
               Len(rhist[t]) = tries

C12_Witness ==
    /\ tries = 2
    /\ Exhausted("t1")
    /\ rcallno["t1"] = 1
    /\ rcallno["t2"] = 2
    /\ rpc["t2"] = "sleep"
    /\ rn["t2"] = 0
    /\ Len(rhist["t2"]) = 1

\* the outcome of the call is the outcome of the last invocation of fn
OutcomeIsLastAttempt(t) ==
    (tries >= 1 /\ rpc[t] \notin {"off", "idle"}) =>
        /\ Len(rhist[t]) <= tries
        /\ \A i \in 1..Len(rhist[t]) :
               rhist[t][i].tag = "return" => i = Len(rhist[t])
        /\ rpc[t] = "done" =>
               /\ Len(rhist[t]) >= 1
               /\ rresult[t] = rhist[t][Len(rhist[t])]

\* C19: with tries >= 1 every call of the wrapper ends, after at most
\* `tries` invocations of fn, and its outcome is that of the last invocation
\* made: the value of the first attempt that returned (fn is not invoked
\* again after it) or the exception of the final attempt.
C19_OutcomeOfLastAttempt ==
    /\ [](\A t \in Threads : OutcomeIsLastAttempt(t))
    /\ \A t \in Threads :
           (tries >= 1 /\ rpc[t] \in {"attempt", "sleep", "raise"})
               ~> (rpc[t] = "done")

C19_Witness ==
    /\ Exhausted("t1")
    /\ tries = MaxTries
    /\ rhist["t1"][1] # rhist["t1"][tries]
    /\ rhist["t1"][1].exc.kind # rhist["t1"][tries].exc.kind
    /\ rresult["t1"] = rhist["t1"][tries]

----------------------------------------------------------------------------
(* Claims about curry, continued *)

\* the arguments the function is attempted with by the last call
Given == csupplied.args \o clast.a
GivenKw == LaterWins(csupplied.keywords, clast.k)
Attempt == Invoke(cfunc, Given, GivenKw)

Variadic == cfunc.sig.varargs # ""
\* getargspec works and there is no *args: the required count is a number
KnownRequired == cfunc.inspectable /\ cfunc.sig.varargs = ""
NReq == Len(cfunc.sig.args) - Len(cfunc.sig.defaults)

\* C13 as stated: a call of the curried form of a variadic callable ends
\* with the callable's result or with the exception it raised, never with a
\* returned pending callable.
C13_VariadicNeverPending ==
    (Variadic /\ clast.called /\ cur.kind = "curry") =>
        clast.out.tag \in {"return", "raise"}

\* C13 amended: every call of the curried form of a variadic callable
\* invokes it with the merged arguments; the call ends with the callable's
\* result, or with the exception it raised when that is not a TypeError; a
\* TypeError of the invocation ends the call with a new curried callable
\* holding the merged arguments.
C13_VariadicPendingOnTypeError ==
    (Variadic /\ clast.called /\ cur.kind = "curry") =>
        /\ clast.out.ran = Attempt.ran
        /\ Attempt.tag = "return" => clast.out = Attempt
        /\ (Attempt.tag = "raise" /\ Attempt.exc # "TypeError") =>
               clast.out = Attempt
        /\ (Attempt.tag = "raise" /\ Attempt.exc = "TypeError") =>
               /\ clast.out.tag = "callable"
               /\ clast.out.obj = CurryObj(Given, GivenKw)

C13_Witness ==
    /\ cfunc = Func(SigBar, "TypeError", TRUE)
    /\ clast.called
    /\ cur.kind = "curry"
    /\ clast.a = <<1, 2>>
    /\ clast.k = EmptyKw
    /\ clast.out.tag = "callable"
    /\ clast.out.ran = 1

\* C14: when the required count is known and the merged positional
\* arguments number at least that count, a TypeError raised by the
\* invocation ends the call of the curried callable as that TypeError; no
\* partial or curried callable is returned.
C14_GenuineTypeErrorPropagates ==
    (/\ clast.called
     /\ cur.kind = "curry"
     /\ KnownRequired
     /\ Len(Given) >= NReq
     /\ Attempt.tag = "raise"
     /\ Attempt.exc = "TypeError") =>
        clast.out = Attempt

C14_Witness ==
    /\ cfunc = Func(SigMul, "TypeError", TRUE)
    /\ cur.kind = "curry"
    /\ csupplied.args = <<>>
    /\ clast.called
    /\ clast.a = <<2, 1>>
    /\ clast.out.tag = "raise"
    /\ clast.out.exc = "TypeError"
    /\ clast.out.ran = 1

\* every required parameter has a value, by position or by keyword
RequiredSupplied ==
    \A i \in 1..NReq : i <= Len(Given) \/ cfunc.sig.args[i] \in DOMAIN GivenKw

BodyTypeError ==
    Attempt.tag = "raise" /\ Attempt.exc = "TypeError" /\ Attempt.ran = 1

\* C15 as stated: when the merged arguments supply every required
\* parameter, by position or by keyword, a TypeError raised by the body of
\* the function is propagated, not turned into a returned callable.
C15_BodyTypeErrorPropagates ==
    (/\ clast.called
     /\ cur.kind = "curry"
     /\ KnownRequired
     /\ RequiredSupplied
     /\ BodyTypeError) =>
        clast.out.tag = "raise"

\* C15 amended: with every required parameter supplied, a TypeError raised
\* by the body is propagated when the merged positional arguments alone
\* number at least the required count; when a required parameter is given
\* by keyword, so that the positional count stays below the required count,
\* the call returns a partial (one positional short) or a curried callable
\* holding the merged arguments.
C15_BodyTypeErrorByPositionalCount ==
    (/\ clast.called
     /\ cur.kind = "curry"
     /\ KnownRequired
     /\ RequiredSupplied
     /\ BodyTypeError) =>
        IF Len(Given) >= NReq
        THEN clast.out = Attempt
        ELSE /\ clast.out.tag = "callable"
             /\ clast.out.ran = 1
             /\ clast.out.obj = IF NReq - Len(Given) = 1
                                THEN PartialObj(Given, GivenKw)
                                ELSE CurryObj(Given, GivenKw)

C15_Witness ==
    /\ cfunc = Func(SigMul, "TypeError", TRUE)
    /\ cur.kind = "curry"
    /\ clast.called
    /\ Given = <<1>>
    /\ "y" \in DOMAIN GivenKw
    /\ clast.out.tag = "callable"
    /\ clast.out.obj.kind = "partial"
    /\ clast.out.ran = 1

\* positional arguments are still missing and no keyword supplies a
\* required parameter
UnderSupplied ==
    /\ Len(Given) < NReq
    /\ \A i \in 1..NReq : cfunc.sig.args[i] \notin DOMAIN GivenKw

\* C16 as stated: for a function with a known required count, every
\* callable of the chain (the curried callables and the partial returned
\* when one argument is pending) returns a pending callable and does not
\* raise when called with fewer positional arguments than still needed.
C16_UnderSuppliedReturnsCallable ==
    (clast.called /\ KnownRequired /\ UnderSupplied) =>
        clast.out.tag = "callable"

\* C16 amended: called with fewer positional arguments than still needed,
\* the initial and every further curried callable return a pending callable
\* without executing the body; the partial returned when exactly one
\* argument is pending raises TypeError when called without that argument.
C16_UnderSuppliedCurryReturnsPartialRaises ==
    (clast.called /\ KnownRequired /\ UnderSupplied) =>
        /\ clast.out.ran = 0
        /\ cur.kind = "curry" => clast.out.tag = "callable"
        /\ cur.kind = "partial" =>
               (clast.out.tag = "raise" /\ clast.out.exc = "TypeError")

C16_Witness ==
    /\ cfunc = Func(SigMul, "ok", TRUE)
    /\ cur.kind = "partial"
    /\ csupplied.args = <<1>>
    /\ clast.called
    /\ clast.a = <<>>
    /\ clast.k = EmptyKw
    /\ clast.out.tag = "raise"

----------------------------------------------------------------------------
(* Claims about unique_symbols and deprecate's warning *)

\* C17: whatever names are in use, every symbol unique_symbols yields is a
\* symbol of the pool of its base, is not one of the names in use and
\* differs from the symbols yielded before it; the generator ends with the
\* two symbols for 'target' and 'fn', or with NameError when every symbol of
\* a pool is in use.
C17_UniqueSymbols ==
    /\ \A i \in 1..Len(uyield) :
        /\ uyield[i] \notin unames
        /\ uyield[i] \in WholePool(Bases[i])
        /\ \A j \in 1..Len(uyield) : j # i => uyield[j] # uyield[i]
    /\ upc = "done" => Len(uyield) = Len(Bases)
    /\ upc = "NameError" =>
        /\ Len(uyield) < Len(Bases)
        /\ WholePool(Bases[Len(uyield) + 1]) \subseteq uused

C17_Witness ==
    /\ unames = {"target", "target0", "fn", "a"}
    /\ upc = "done"
    /\ uyield = <<"target1", "fn0">>

\* C18: the warning deprecate emits for a call of the decorated function is
\* attributed to the frame of the caller of the decorated function, not to
\* the synthesized wrapper nor to deprecate's own wrapper.
C18_WarningAttributedToCaller ==
    (dtarget = "deprecate" /\ dwarned >= 1) => dwarnat = CallerFrame

----------------------------------------------------------------------------
(* Claims about HTMLAttributes *)

\* the supplied key with one trailing underscore removed
OneUnderscoreRemoved(key) ==
    IF key # <<>> /\ key[Len(key)] = "_" THEN SubSeq(key, 1, Len(key) - 1)
    ELSE key

\* C20: after any sequence of attribute and item reads and writes, every
\* key an operation stored is the supplied key with one trailing underscore
\* removed; a read never raises, and the read of an absent key leaves an
\* empty value under the cleaned key and returns it.
C20_KeysNormalized ==
    hlast.op # "none" =>
        /\ \A k \in hlast.stored : k = OneUnderscoreRemoved(hlast.key)
        /\ hlast.op \in {"getitem", "getattr"} =>
            /\ hlast.out.tag = "return"
            /\ hlast.absent =>
                /\ OneUnderscoreRemoved(hlast.key) \in DOMAIN hdict
                /\ hdict[OneUnderscoreRemoved(hlast.key)] = ""
                /\ hlast.out.val = ""

====
